---- MODULE Spec2Model ----
(***************************************************************************)
(* Model of scqubits/core/spec_lookup.py: the SpectrumLookup table that    *)
(* translates between dressed indices and bare product-state labels, its   *)
(* staleness guard (check_sync_status) and the bare-data lookups shared    *)
(* with the owning HilbertSpace / ParameterSweep.                          *)
(*                                                                         *)
(* Conventions.  Python indices are 0-based; TLA+ sequences are 1-based,   *)
(* so the element with Python index k of a list is element k+1 of the      *)
(* sequence.  Values of different Python types are tagged records:         *)
(*   [none |-> TRUE]   None                                                *)
(*   [int |-> k]       an integer (a dressed index)                        *)
(*   [label |-> s]     a tuple of bare indices                             *)
(*   [value |-> v]     any other returned object (array, table, energy)    *)
(*   [raise |-> e]     the exception the call ends in                      *)
(* Overlap amplitudes are integers in units of 1/10, so 0.5 is 5.          *)
(***************************************************************************)
EXTENDS Integers, Sequences, FiniteSets, TLC

\* ---------------------------------------------------------------- bounds
\* largest total Hilbert-space dimension (product of the subsystem dims)
MaxDimension == 6
\* number of parameter values of a sweep (a HilbertSpace has one)
MaxParams == 2
\* number of distinct spectral data sets a generation event may compute
NSeeds == 2

\* overlap threshold 0.5 of _generate_single_mapping, in units of 1/10
Threshold == 5

VARIABLES
    framework,          \* type of the owner: "HilbertSpace", "ParameterSweep" or "Other"
    subsystem_dims,     \* <HilbertSpace>.subsystem_dims
    subsys_update_list, \* <ParameterSweep>.subsys_update_list (subsystem positions)
    param_count,        \* number of parameter values of the owner (1 for a HilbertSpace)
    lookup,             \* <framework>.lookup: the table the owner currently references
    held,               \* an earlier table a user still holds after regeneration
    last                \* the last operation: its name, table, arguments and outcome

vars == <<framework, subsystem_dims, subsys_update_list, param_count, lookup, held, last>>

\* ---------------------------------------------------------------- values
None == [none |-> TRUE]
IntVal(k) == [int |-> k]
Label(s) == [label |-> s]
Value(v) == [value |-> v]
Raise(e) == [raise |-> e]

IsNone(x) == DOMAIN x = {"none"}
IsInt(x) == DOMAIN x = {"int"}
IsLabel(x) == DOMAIN x = {"label"}
IsValue(x) == DOMAIN x = {"value"}
IsRaise(x) == DOMAIN x = {"raise"}

Abs(x) == IF x < 0 THEN -x ELSE x

RECURSIVE Product(_)
Product(s) == IF s = <<>> THEN 1 ELSE Head(s) * Product(Tail(s))

\* <HilbertSpace>.subsystem_count
subsystem_count(dims) == Len(dims)

\* <HilbertSpace>.dimension
dimension(dims) == Product(dims)

\* ------------------------------------------------- external spectral data
\* The owners this model runs with: one or two subsystems, every dimension
\* at least 1, total dimension at most MaxDimension.
DimLists ==
    {<<a>> : a \in 1..MaxDimension} \cup
    {<<a, b>> : a \in 1..MaxDimension, b \in 1..MaxDimension}

WellFormedDims == {dl \in DimLists : Product(dl) <= MaxDimension}

\* Row the columns of the generated overlap matrices peak at.
PeakRow(k, b) == IF k % 2 = 0 THEN b ELSE (b + 1) \div 2

\* Overlap amplitude (units of 1/10) of dressed state i (row) on bare basis
\* state b (column) in the eigenvector data set k.  Columns cycle through
\* four shapes: a strong negative peak; a maximum of exactly 0.5 attained
\* by several rows; a maximum of 0.4; a tie between +0.7 and -0.7.
Amplitude(dim, k, i, b) ==
    LET r == PeakRow(k, b)
        c == (b + k) % 4
    IN  CASE c = 0 -> IF i = r THEN -10 ELSE 0
          [] c = 1 -> IF i >= r THEN 5 ELSE 4
          [] c = 2 -> IF i = r THEN 4 ELSE IF i = dim THEN -4 ELSE 3
          [] OTHER -> IF i = r THEN 7 ELSE IF i = dim THEN -7 ELSE 1

\* Dressed spectral data (a SpectrumData) computed by generation event `seed`:
\* per parameter value the eigenvectors as rows of amplitudes, and energies.
DressedSpecData(dims, pc, seed) ==
    LET dim == dimension(dims)
    IN  [param_count |-> pc,
         state_table |-> [p \in 1..pc |->
                            [i \in 1..dim |-> [b \in 1..dim |-> Amplitude(dim, seed + p - 1, i, b)]]],
         energy_table |-> [p \in 1..pc |-> [i \in 1..dim |-> 100 * seed + 10 * p + i]]]

\* Bare spectral data list computed by generation event `seed`: one
\* SpectrumData per subsystem.  A subsystem whose bare spectrum changes
\* across the sweep has one entry per parameter value; every other one has
\* the single table of its eigenvectors / eigenenergies (one entry per level).
BareSpecDataList(dims, pc, update, seed) ==
    [s \in 1..Len(dims) |->
        LET n == IF s \in update THEN pc ELSE dims[s]
        IN  [state_table |-> [k \in 1..n |-> <<"evecs", seed, s, k>>],
             energy_table |-> [k \in 1..n |-> <<"evals", seed, s, k>>]]]

\* ------------------------------------------------------- python built-ins
\* 0 <= k < len(seq): the positions seq[k] does not raise IndexError for
\* (the arguments of this model are never negative)
InRange(seq, k) == k \in 0..(Len(seq) - 1)

\* list.index(x): the 0-based position of the first element equal to x,
\* ValueError when there is none
RECURSIVE index_scan(_, _, _)
index_scan(list, x, i) ==
    IF i > Len(list) THEN Raise("ValueError")
    ELSE IF list[i] = x THEN IntVal(i - 1)
    ELSE index_scan(list, x, i + 1)

list_index(list, x) == index_scan(list, x, 1)

\* numpy argmax: the 0-based position of the first occurrence of the maximum
RECURSIVE argmax_scan(_, _, _)
argmax_scan(a, i, best) ==
    IF i > Len(a) THEN best - 1
    ELSE argmax_scan(a, i + 1, IF a[i] > a[best] THEN i ELSE best)

argmax(a) == argmax_scan(a, 2, 1)

\* itertools.product(*ranges): the last range varies fastest
RECURSIVE itertools_product(_)
itertools_product(ranges) ==
    IF ranges = <<>> THEN << <<>> >>
    ELSE LET first == Head(ranges)
             rest == itertools_product(Tail(ranges))
             m == Len(rest)
         IN  [k \in 1..(Len(first) * m) |->
                <<first[((k - 1) \div m) + 1]>> \o rest[((k - 1) % m) + 1]]

\* ---------------------------------------------------------- construction
\* _generate_bare_labels that walks the subsystems in reverse order
_generate_bare_labels_reversed(dims) ==
    LET n == subsystem_count(dims)
        basis_label_ranges ==
            [subsys_index \in 1..n |-> [k \in 1..dims[n + 1 - subsys_index] |-> k - 1]]
    IN  itertools_product(basis_label_ranges)

\* SpectrumLookup._generate_bare_labels
_generate_bare_labels(dims) ==
    LET basis_label_ranges ==
            [subsys_index \in 1..subsystem_count(dims) |->
                [k \in 1..dims[subsys_index] |-> k - 1]]
    IN  itertools_product(basis_label_ranges)

\* _generate_single_mapping that also drops a maximum of exactly 0.5
_generate_single_mapping_le(dressed_specdata, dims, param_index) ==
    LET overlap_matrix == dressed_specdata.state_table[param_index + 1]
    IN  [bare_basis_index \in 1..dimension(dims) |->
            LET column == [i \in 1..Len(overlap_matrix) |->
                              Abs(overlap_matrix[i][bare_basis_index])]
                max_position == argmax(column)
                max_overlap == Abs(overlap_matrix[max_position + 1][bare_basis_index])
            IN  IF max_overlap <= Threshold THEN None ELSE IntVal(max_position)]

\* SpectrumLookup._generate_single_mapping (param_index is 0-based)
_generate_single_mapping(dressed_specdata, dims, param_index) ==
    LET overlap_matrix == dressed_specdata.state_table[param_index + 1]
    IN  [bare_basis_index \in 1..dimension(dims) |->
            LET column == [i \in 1..Len(overlap_matrix) |->
                              Abs(overlap_matrix[i][bare_basis_index])]
                max_position == argmax(column)
                max_overlap == Abs(overlap_matrix[max_position + 1][bare_basis_index])
            IN  IF max_overlap < Threshold THEN None ELSE IntVal(max_position)]

\* SpectrumLookup._generate_mappings
_generate_mappings(dressed_specdata, dims) ==
    [index \in 1..dressed_specdata.param_count |->
        _generate_single_mapping(dressed_specdata, dims, index - 1)]

\* SpectrumLookup.__init__ that leaves the new table marked out of sync
SpectrumLookup_out_of_sync(fw, dims, dressed_specdata, bare_specdata_list) ==
    IF fw \notin {"ParameterSweep", "HilbertSpace"} THEN Raise("TypeError")
    ELSE [_dressed_specdata |-> dressed_specdata,
          _bare_specdata_list |-> bare_specdata_list,
          _sweep |-> IF fw = "ParameterSweep" THEN "ParameterSweep" ELSE "None",
          _hilbertspace |-> "HilbertSpace",
          _canonical_bare_labels |-> _generate_bare_labels(dims),
          _dressed_indices |-> _generate_mappings(dressed_specdata, dims),
          _out_of_sync |-> TRUE]

\* SpectrumLookup.__init__: the new table, or the TypeError it raises
SpectrumLookup(fw, dims, dressed_specdata, bare_specdata_list) ==
    IF fw \notin {"ParameterSweep", "HilbertSpace"} THEN Raise("TypeError")
    ELSE [_dressed_specdata |-> dressed_specdata,
          _bare_specdata_list |-> bare_specdata_list,
          _sweep |-> IF fw = "ParameterSweep" THEN "ParameterSweep" ELSE "None",
          _hilbertspace |-> "HilbertSpace",
          _canonical_bare_labels |-> _generate_bare_labels(dims),
          _dressed_indices |-> _generate_mappings(dressed_specdata, dims),
          _out_of_sync |-> FALSE]

\* ---------------------------------------------------------------- queries
\* What a call did: the value it returned or the exception it ended in, and
\* the number of warnings.warn calls it made.
Ret(outcome, warnings) == [outcome |-> outcome, warnings |-> warnings]

\* check_sync_status with a guard that fails instead of warning
check_sync_status_failing(self, r) ==
    IF self._out_of_sync THEN Ret(Raise("Warning"), 1) ELSE r

\* check_sync_status: the wrapper warns when the table is out of sync, then
\* runs the wrapped method (whose outcome and warnings are r)
check_sync_status(self, r) ==
    Ret(r.outcome, (IF self._out_of_sync THEN 1 ELSE 0) + r.warnings)

\* dressed_index that ignores param_index and reads the first assignment list
dressed_index_first_param(self, bare_labels, param_index) ==
    check_sync_status(self,
        LET lookup_position == list_index(self._canonical_bare_labels, bare_labels)
        IN  IF IsRaise(lookup_position) THEN Ret(None, 0)
            ELSE Ret(self._dressed_indices[1][lookup_position.int + 1], 0))

\* SpectrumLookup.dressed_index
dressed_index(self, bare_labels, param_index) ==
    check_sync_status(self,
        LET lookup_position == list_index(self._canonical_bare_labels, bare_labels)
        IN  IF IsRaise(lookup_position) THEN Ret(None, 0)
            ELSE IF ~InRange(self._dressed_indices, param_index)
                 THEN Ret(Raise("IndexError"), 0)
            ELSE Ret(self._dressed_indices[param_index + 1][lookup_position.int + 1], 0))

\* the 0-based position of the last element equal to x
RECURSIVE rindex_scan(_, _, _)
rindex_scan(list, x, i) ==
    IF i < 1 THEN Raise("ValueError")
    ELSE IF list[i] = x THEN IntVal(i - 1)
    ELSE rindex_scan(list, x, i - 1)

\* bare_index that returns the last matching position instead of the first
bare_index_last_match(self, dressed_idx, param_index) ==
    check_sync_status(self,
        IF ~InRange(self._dressed_indices, param_index) THEN Ret(Raise("IndexError"), 0)
        ELSE LET list == self._dressed_indices[param_index + 1]
                 lookup_position == rindex_scan(list, dressed_idx, Len(list))
             IN  IF IsRaise(lookup_position) THEN Ret(None, 0)
                 ELSE Ret(Label(self._canonical_bare_labels[lookup_position.int + 1]), 0))

\* SpectrumLookup.bare_index (dressed_index is None or an integer)
bare_index(self, dressed_idx, param_index) ==
    check_sync_status(self,
        IF ~InRange(self._dressed_indices, param_index) THEN Ret(Raise("IndexError"), 0)
        ELSE LET lookup_position ==
                     list_index(self._dressed_indices[param_index + 1], dressed_idx)
             IN  IF IsRaise(lookup_position) THEN Ret(None, 0)
                 ELSE Ret(Label(self._canonical_bare_labels[lookup_position.int + 1]), 0))

\* SpectrumLookup.dressed_eigenstates
dressed_eigenstates(self, param_index) ==
    check_sync_status(self,
        IF ~InRange(self._dressed_specdata.state_table, param_index)
        THEN Ret(Raise("IndexError"), 0)
        ELSE Ret(Value(self._dressed_specdata.state_table[param_index + 1]), 0))

\* SpectrumLookup.dressed_eigenenergies
dressed_eigenenergies(self, param_index) ==
    check_sync_status(self,
        IF ~InRange(self._dressed_specdata.energy_table, param_index)
        THEN Ret(Raise("IndexError"), 0)
        ELSE Ret(Value(self._dressed_specdata.energy_table[param_index + 1]), 0))

\* SpectrumLookup.energy_bare_index: calls the guarded self.dressed_index
energy_bare_index(self, bare_tuples, param_index) ==
    check_sync_status(self,
        LET inner == dressed_index(self, bare_tuples, param_index)
        IN  IF IsRaise(inner.outcome) THEN inner
            ELSE IF ~IsNone(inner.outcome)
                 THEN Ret(Value(self._dressed_specdata.energy_table[param_index + 1]
                                                                  [inner.outcome.int + 1]),
                          inner.warnings)
            ELSE Ret(None, inner.warnings))

\* SpectrumLookup.energy_dressed_index (dressed_index is an integer)
energy_dressed_index(self, dressed_idx, param_index) ==
    check_sync_status(self,
        IF ~InRange(self._dressed_specdata.energy_table, param_index)
        THEN Ret(Raise("IndexError"), 0)
        ELSE IF ~InRange(self._dressed_specdata.energy_table[param_index + 1], dressed_idx)
             THEN Ret(Raise("IndexError"), 0)
        ELSE Ret(Value(self._dressed_specdata.energy_table[param_index + 1][dressed_idx + 1]), 0))

\* shared_lookup_bare_eigenstates that indexes at param_index for every subsystem
shared_lookup_always_indexed(self_type, sweep_lookup, update_list, param_index, subsys, bare_specdata_list) ==
    IF self_type = "ParameterSweep"
    THEN LET list == IF IsNone(bare_specdata_list)
                     THEN sweep_lookup._bare_specdata_list
                     ELSE bare_specdata_list.value
         IN  IF ~InRange(list[subsys].state_table, param_index)
             THEN Raise("IndexError")
             ELSE Value(list[subsys].state_table[param_index + 1])
    ELSE Raise("TypeError")

\* shared_lookup_bare_eigenstates(self, param_index, subsys, bare_specdata_list):
\* self_type is the type of `self` ("ParameterSweep", "HilbertSpace" or "None"),
\* sweep_lookup and update_list are self.lookup and self.subsys_update_list of
\* a sweep, bare_specdata_list is None or a list.
shared_lookup_bare_eigenstates(self_type, sweep_lookup, update_list, param_index, subsys, bare_specdata_list) ==
    IF self_type = "ParameterSweep"
    THEN LET list == IF IsNone(bare_specdata_list)
                     THEN sweep_lookup._bare_specdata_list
                     ELSE bare_specdata_list.value
             subsys_index == subsys
         IN  IF subsys \in update_list
             THEN IF ~InRange(list[subsys_index].state_table, param_index)
                  THEN Raise("IndexError")
                  ELSE Value(list[subsys_index].state_table[param_index + 1])
             ELSE Value(list[subsys_index].state_table)
    ELSE IF self_type = "HilbertSpace"
    THEN IF IsNone(bare_specdata_list) THEN Raise("TypeError")
         ELSE Value(bare_specdata_list.value[subsys].state_table)
    ELSE Raise("TypeError")

\* SpectrumLookup.bare_eigenstates: passes self._sweep and no list
bare_eigenstates(self, sweep_lookup, update_list, subsys, param_index) ==
    check_sync_status(self,
        Ret(shared_lookup_bare_eigenstates(self._sweep, sweep_lookup, update_list,
                                           param_index, subsys, None), 0))

\* SpectrumLookup.bare_eigenenergies: reads self._sweep.subsys_update_list
bare_eigenenergies(self, update_list, subsys, param_index) ==
    check_sync_status(self,
        LET subsys_index == subsys
        IN  IF self._sweep = "None" THEN Ret(Raise("AttributeError"), 0)
            ELSE IF subsys \in update_list
                 THEN IF ~InRange(self._bare_specdata_list[subsys_index].energy_table, param_index)
                      THEN Ret(Raise("IndexError"), 0)
                      ELSE Ret(Value(self._bare_specdata_list[subsys_index]
                                         .energy_table[param_index + 1]), 0)
            ELSE Ret(Value(self._bare_specdata_list[subsys_index].energy_table), 0))

\* ------------------------------------------------------------ the system
QueryOps ==
    {"dressed_index", "bare_index", "dressed_eigenstates", "dressed_eigenenergies",
     "energy_bare_index", "energy_dressed_index", "bare_eigenstates", "bare_eigenenergies"}

Slots == {"lookup", "held"}

\* the table a slot refers to (None when there is none)
Table(slot) == IF slot = "lookup" THEN lookup ELSE held

Call(op, slot, arg, p, r) ==
    [op |-> op, table |-> slot, arg |-> arg, p |-> p,
     outcome |-> r.outcome, warnings |-> r.warnings]

\* arguments the queries are called with
ParamArgs == 0..param_count
LabelArgs == {subsystem_dims} \cup
             {_generate_bare_labels(subsystem_dims)[k] : k \in 1..dimension(subsystem_dims)}
IndexArgs == 0..dimension(subsystem_dims)
SubsysArgs == 1..subsystem_count(subsystem_dims)

\* The program is sequential: one operation runs at a time.  `last` holds the
\* operation whose outcome the caller is looking at; Idle says there is none.
NoCall == Call("none", "none", None, 0, Ret(None, 0))

Idle == last = NoCall

Init ==
    /\ framework \in {"HilbertSpace", "ParameterSweep", "Other"}
    /\ subsystem_dims \in WellFormedDims
    /\ param_count = IF framework = "ParameterSweep" THEN MaxParams ELSE 1
    /\ subsys_update_list \in IF framework = "ParameterSweep"
                              THEN SUBSET (1..Len(subsystem_dims)) ELSE {{}}
    /\ lookup = None
    /\ held = None
    /\ last = NoCall

\* <HilbertSpace>.generate_lookup() / <ParameterSweep>.run(): compute spectral
\* data, construct a new table from it and replace the owner's reference.  A
\* user may keep a reference to the table that is replaced.
Generate ==
    /\ Idle
    /\ \E seed \in 1..NSeeds :
          LET new == SpectrumLookup(framework, subsystem_dims,
                         DressedSpecData(subsystem_dims, param_count, seed),
                         BareSpecDataList(subsystem_dims, param_count, subsys_update_list, seed))
          IN  IF IsRaise(new)
              THEN /\ last' = Call("__init__", "none", None, 0, Ret(new, 0))
                   /\ UNCHANGED <<lookup, held>>
              ELSE /\ lookup' = new
                   /\ held' \in (IF IsNone(lookup) THEN {held} ELSE {held, lookup})
                   /\ last' = Call("__init__", "lookup", None, 0, Ret(None, 0))
    /\ UNCHANGED <<framework, subsystem_dims, subsys_update_list, param_count>>

\* The owner marks its current table stale: <framework>.lookup._out_of_sync = True
MarkOutOfSync ==
    /\ Idle
    /\ ~IsNone(lookup)
    /\ lookup' = [lookup EXCEPT !._out_of_sync = TRUE]
    /\ last' = Call("_out_of_sync", "lookup", None, 0, Ret(None, 0))
    /\ UNCHANGED <<framework, subsystem_dims, subsys_update_list, param_count, held>>

Unchanged == UNCHANGED <<framework, subsystem_dims, subsys_update_list, param_count, lookup, held>>

QueryDressedIndex ==
    /\ Idle
    /\ \E slot \in Slots, l \in LabelArgs, p \in ParamArgs :
           /\ ~IsNone(Table(slot))
           /\ last' = Call("dressed_index", slot, Label(l), p, dressed_index(Table(slot), l, p))
           /\ Unchanged

QueryBareIndex ==
    /\ Idle
    /\ \E slot \in Slots, d \in {None} \cup {IntVal(k) : k \in IndexArgs}, p \in ParamArgs :
           /\ ~IsNone(Table(slot))
           /\ last' = Call("bare_index", slot, d, p, bare_index(Table(slot), d, p))
           /\ Unchanged

QueryDressedEigenstates ==
    /\ Idle
    /\ \E slot \in Slots, p \in ParamArgs :
           /\ ~IsNone(Table(slot))
           /\ last' = Call("dressed_eigenstates", slot, None, p, dressed_eigenstates(Table(slot), p))
           /\ Unchanged

QueryDressedEigenenergies ==
    /\ Idle
    /\ \E slot \in Slots, p \in ParamArgs :
           /\ ~IsNone(Table(slot))
           /\ last' = Call("dressed_eigenenergies", slot, None, p,
                           dressed_eigenenergies(Table(slot), p))
           /\ Unchanged

QueryEnergyBareIndex ==
    /\ Idle
    /\ \E slot \in Slots, l \in LabelArgs, p \in ParamArgs :
           /\ ~IsNone(Table(slot))
           /\ last' = Call("energy_bare_index", slot, Label(l), p,
                           energy_bare_index(Table(slot), l, p))
           /\ Unchanged

QueryEnergyDressedIndex ==
    /\ Idle
    /\ \E slot \in Slots, d \in IndexArgs, p \in ParamArgs :
           /\ ~IsNone(Table(slot))
           /\ last' = Call("energy_dressed_index", slot, IntVal(d), p,
                           energy_dressed_index(Table(slot), d, p))
           /\ Unchanged

QueryBareEigenstates ==
    /\ Idle
    /\ \E slot \in Slots, s \in SubsysArgs, p \in ParamArgs :
           /\ ~IsNone(Table(slot))
           /\ last' = Call("bare_eigenstates", slot, [subsys |-> s], p,
                           bare_eigenstates(Table(slot), lookup, subsys_update_list, s, p))
           /\ Unchanged

QueryBareEigenenergies ==
    /\ Idle
    /\ \E slot \in Slots, s \in SubsysArgs, p \in ParamArgs :
           /\ ~IsNone(Table(slot))
           /\ last' = Call("bare_eigenenergies", slot, [subsys |-> s], p,
                           bare_eigenenergies(Table(slot), subsys_update_list, s, p))
           /\ Unchanged

\* The caller is done with the outcome of the last operation.
Proceed ==
    /\ ~Idle
    /\ last' = NoCall
    /\ Unchanged

Next ==
    \/ Proceed
    \/ Generate
    \/ MarkOutOfSync
    \/ QueryDressedIndex
    \/ QueryBareIndex
    \/ QueryDressedEigenstates
    \/ QueryDressedEigenenergies
    \/ QueryEnergyBareIndex
    \/ QueryEnergyDressedIndex
    \/ QueryBareEigenstates
    \/ QueryBareEigenenergies

Spec == Init /\ [][Next]_vars

\* ================================================================ claims
\* the table the last operation was called on
T == Table(last.table)

IsQuery == last.op \in QueryOps

\* the last operation constructed the table the owner now references
Constructed == last.op = "__init__" /\ last.table = "lookup"

IsBareQuery == last.op \in {"bare_eigenstates", "bare_eigenenergies"}

\* the outcome and warnings of calling query `op` on table `self`
Query(op, self, arg, p) ==
    CASE op = "dressed_index" -> dressed_index(self, arg.label, p)
      [] op = "bare_index" -> bare_index(self, arg, p)
      [] op = "dressed_eigenstates" -> dressed_eigenstates(self, p)
      [] op = "dressed_eigenenergies" -> dressed_eigenenergies(self, p)
      [] op = "energy_bare_index" -> energy_bare_index(self, arg.label, p)
      [] op = "energy_dressed_index" -> energy_dressed_index(self, arg.int, p)
      [] op = "bare_eigenstates" ->
             bare_eigenstates(self, lookup, subsys_update_list, arg.subsys, p)
      [] op = "bare_eigenenergies" ->
             bare_eigenenergies(self, subsys_update_list, arg.subsys, p)

\* the bare table of subsystem s in a bare spectral data list that the last
\* bare-data query is about: the state table or the energy table
BareTable(list, s) ==
    IF last.op = "bare_eigenstates" THEN list[s].state_table ELSE list[s].energy_table

\* C1: on a table owned directly by a HilbertSpace, bare_eigenstates and
\* bare_eigenenergies return the subsystem's full bare table of the table's
\* own bare spectral data, for every subsystem and param_index, without failing.
C1_SinglePointBareData ==
    (framework = "HilbertSpace" /\ IsBareQuery) =>
        last.outcome = Value(BareTable(T._bare_specdata_list, last.arg.subsys))

\* C2: a call of a guarded query emits the out-of-sync warning exactly once
\* when the table's flag is set, and no warning when it is not.
C2_OneWarningPerCall ==
    IsQuery => last.warnings = (IF T._out_of_sync THEN 1 ELSE 0)

\* C3: the outcome of a guarded query (returned value or propagated failure)
\* is the same whether the staleness flag of the table is set or clear.
C3_WarnAndContinue ==
    IsQuery =>
        \A flag \in BOOLEAN :
            Query(last.op, [T EXCEPT !._out_of_sync = flag], last.arg, last.p).outcome
                = last.outcome

\* C3 witness: a query on a stale table returned a value
C3_Witness ==
    /\ IsQuery
    /\ T._out_of_sync
    /\ IsValue(last.outcome)

\* C4: a table is in sync right after a successful construction; only the
\* owner's external write makes it stale; no query or other operation changes
\* the flag in either direction; labels and assignment lists never change.
C4_StalenessStateMachine ==
    [][ /\ (last'.op = "__init__" /\ last'.table = "lookup") =>
               /\ ~lookup'._out_of_sync
               /\ held' \in {held, lookup}
        /\ (last'.op = "__init__" /\ last'.table = "none") =>
               (lookup' = lookup /\ held' = held)
        /\ last'.op = "_out_of_sync" =>
               /\ held' = held
               /\ lookup' = [lookup EXCEPT !._out_of_sync = lookup'._out_of_sync]
               /\ lookup._out_of_sync => lookup'._out_of_sync
        /\ last'.op \notin {"__init__", "_out_of_sync"} =>
               (lookup' = lookup /\ held' = held)
      ]_vars

\* C4 witness: a query ran on a table that went stale, was superseded by a
\* newly constructed (in sync) table and is still stale
C4_Witness ==
    /\ IsQuery
    /\ last.table = "held"
    /\ ~IsNone(lookup)
    /\ held._out_of_sync
    /\ ~lookup._out_of_sync

\* maximum absolute amplitude of column b of an overlap matrix
ColumnMax(matrix, b) ==
    LET vals == {Abs(matrix[i][b]) : i \in 1..Len(matrix)}
    IN  CHOOSE v \in vals : \A w \in vals : w <= v

\* rows (1-based) of an overlap matrix attaining the maximum of column b
ColumnMaxRows(matrix, b) ==
    {i \in 1..Len(matrix) : Abs(matrix[i][b]) = ColumnMax(matrix, b)}

Min(S) == CHOOSE x \in S : \A y \in S : x <= y

\* C5: for every parameter index the assignment list has one entry per
\* canonical label; entry b is unassigned when the maximum absolute amplitude
\* of column b is strictly below 0.5 (5 tenths), otherwise the lowest row
\* index attaining the maximum.
C5_AssignmentLists ==
    Constructed =>
        /\ Len(lookup._dressed_indices) = param_count
        /\ \A p \in 1..Len(lookup._dressed_indices) :
               LET matrix == lookup._dressed_specdata.state_table[p]
                   list == lookup._dressed_indices[p]
               IN  /\ Len(list) = Len(lookup._canonical_bare_labels)
                   /\ \A b \in 1..Len(list) :
                          list[b] = IF ColumnMax(matrix, b) < 5 THEN None
                                    ELSE IntVal(Min(ColumnMaxRows(matrix, b)) - 1)

\* C5 witness: a constructed table with an unassigned column, a column whose
\* maximum is exactly 0.5 attained by several rows and assigned, and two
\* columns assigned to the same row
C5_Witness ==
    /\ Constructed
    /\ \E p \in 1..Len(lookup._dressed_indices) :
           LET matrix == lookup._dressed_specdata.state_table[p]
               list == lookup._dressed_indices[p]
           IN  /\ \E b \in 1..Len(list) : list[b] = None
               /\ \E b \in 1..Len(list) :
                      /\ ColumnMax(matrix, b) = 5
                      /\ Cardinality(ColumnMaxRows(matrix, b)) > 1
                      /\ IsInt(list[b])
               /\ \E b1, b2 \in 1..Len(list) :
                      b1 # b2 /\ IsInt(list[b1]) /\ list[b1] = list[b2]

\* C6: whenever bare_index(d, p) returns a bare label,
\* dressed_index(bare_index(d, p), p) equals d.
C6_RoundTrip ==
    (last.op = "bare_index" /\ IsLabel(last.outcome)) =>
        dressed_index(T, last.outcome.label, last.p).outcome = last.arg

\* C6 witness: bare_index returned a label for an integer d, on a table where
\* the reverse round trip fails for some bare label L of the same parameter
\* index: bare_index(dressed_index(L, p), p) # L
C6_Witness ==
    /\ last.op = "bare_index"
    /\ IsLabel(last.outcome)
    /\ IsInt(last.arg)
    /\ \E k \in 1..Len(T._canonical_bare_labels) :
           LET L == T._canonical_bare_labels[k]
               d == dressed_index(T, L, last.p).outcome
           IN  IsInt(d) /\ bare_index(T, d, last.p).outcome # Label(L)

\* canonical positions (1-based) whose assignment-list entry for the
\* parameter index of the last call equals the queried value
Matches == {k \in 1..Len(T._canonical_bare_labels) : T._dressed_indices[last.p + 1][k] = last.arg}

\* C7: for a valid parameter index, bare_index(d, p) returns the bare label
\* at the lowest canonical position whose entry equals d, and unassigned
\* (no failure) when no position has an entry equal to d.
C7_BareIndexFirstMatch ==
    (last.op = "bare_index" /\ last.p < Len(T._dressed_indices)) =>
        last.outcome = IF Matches = {} THEN None
                       ELSE Label(T._canonical_bare_labels[Min(Matches)])

\* C7 witness: bare_index was called with a dressed index that several
\* canonical positions are assigned to
C7_Witness ==
    /\ last.op = "bare_index"
    /\ last.p < Len(T._dressed_indices)
    /\ IsInt(last.arg)
    /\ Cardinality(Matches) > 1

\* all tuples of per-subsystem indices within the dimensions
TuplesWithin(dims) ==
    {t \in [1..Len(dims) -> 0..(MaxDimension - 1)] : \A s \in 1..Len(dims) : t[s] < dims[s]}

\* a comes strictly before b in lexicographic order (equal lengths)
LexLess(a, b) ==
    \E s \in 1..Len(a) : a[s] < b[s] /\ \A r \in 1..(s - 1) : a[r] = b[r]

\* C8: the canonical bare-label sequence contains every tuple of indices
\* within the dimensions exactly once, has length product(dims) = dimension,
\* and is in lexicographic order, last subsystem fastest; dims (2,3) give
\* [(0,0),(0,1),(0,2),(1,0),(1,1),(1,2)].
C8_CanonicalLabels ==
    Constructed =>
        LET labels == lookup._canonical_bare_labels
        IN  /\ Len(labels) = Product(subsystem_dims)
            /\ Len(labels) = dimension(subsystem_dims)
            /\ \A t \in TuplesWithin(subsystem_dims) :
                   Cardinality({k \in 1..Len(labels) : labels[k] = t}) = 1
            /\ \A k \in 1..(Len(labels) - 1) : LexLess(labels[k], labels[k + 1])
            /\ subsystem_dims = <<2, 3>> =>
                   labels = <<(<<0, 0>>), (<<0, 1>>), (<<0, 2>>),
                              (<<1, 0>>), (<<1, 1>>), (<<1, 2>>)>>

\* C8 witness: a table constructed for subsystem dimensions (2,3)
C8_Witness ==
    /\ Constructed
    /\ subsystem_dims = <<2, 3>>

\* the bare spectral data lists a bare-data query on the table of the last
\* call may be answered from: the table's own list when the sweep references
\* this table, else the list of any table generated for the sweep
SweepBareDataLists ==
    IF last.table = "lookup" THEN {lookup._bare_specdata_list}
    ELSE {lookup._bare_specdata_list, held._bare_specdata_list}

\* C9: on a table owned by a sweep, bare_eigenstates and bare_eigenenergies
\* dispatch alike: for a subsystem in subsys_update_list the result is the
\* subsystem's bare table indexed at p, otherwise the subsystem's full bare
\* table, whatever p.
C9_SweepDispatch ==
    (framework = "ParameterSweep" /\ IsBareQuery) =>
        LET s == last.arg.subsys
        IN  IF s \in subsys_update_list
            THEN last.p < param_count =>
                     \E list \in SweepBareDataLists :
                         last.outcome = Value(BareTable(list, s)[last.p + 1])
            ELSE \E list \in SweepBareDataLists :
                     last.outcome = Value(BareTable(list, s))

\* C9 witness: bare_eigenstates was called at parameter index 1 for a
\* subsystem in subsys_update_list, of a sweep that also has a subsystem
\* outside that list
C9_Witness ==
    /\ framework = "ParameterSweep"
    /\ last.op = "bare_eigenstates"
    /\ last.arg.subsys \in subsys_update_list
    /\ last.p = 1
    /\ subsys_update_list # 1..Len(subsystem_dims)

\* C10: bare_eigenstates and bare_eigenenergies of a sweep-owned table both
\* read the bare spectral data list given to that table's construction, also
\* after the sweep has built a newer table and replaced its lookup reference.
C10_OwnBareData ==
    (framework = "ParameterSweep" /\ IsBareQuery) =>
        LET s == last.arg.subsys
            own == BareTable(T._bare_specdata_list, s)
        IN  IF s \in subsys_update_list
            THEN last.p < param_count => last.outcome = Value(own[last.p + 1])
            ELSE last.outcome = Value(own)

====
